---- MODULE Spec2Model ----
(***************************************************************************)
(* Model of the serde-hex codec: the nibble codec and buffer codec of      *)
(* src/utils.rs, the policy-driven into_hex_raw / from_hex_raw of the      *)
(* impl_core_bytearray macro in src/lib.rs, and the policy-free macros of  *)
(* src/macros/hex.rs (into_hex_strict!, from_hex_strict!,                  *)
(* into_hex_compact!, from_hex_compact!).                                  *)
(*                                                                         *)
(* Bytes and characters are u8 values (0..255); a text is a sequence of    *)
(* ASCII codes.  A Result is a record [tag, arg]: tag "Ok" carries the     *)
(* value in arg, the error tags "BadSize", "BadChar", "BadByte" carry the  *)
(* error's payload, "IoError" carries 0.  Two results are compared with    *)
(* SameResult (tag first).  Sequences are 1-based, so a Rust index i is    *)
(* position i + 1 here.                                                    *)
(***************************************************************************)
EXTENDS Integers, Sequences, FiniteSets, TLC

VARIABLES api, conf, len, src, dst, raw, bytebuf, hexbuf, res, out, prev, rel, pc

vars == <<api, conf, len, src, dst, raw, bytebuf, hexbuf, res, out, prev, rel, pc>>

---------------------------------------------------------------------------
(* Bounds of the exploration.                                              *)

\* Container sizes 1..MaxLen are explored exhaustively.
MaxLen == 2
\* Longest text body handed to from_hex_raw.
MaxText == 5
\* A failing sink fails on its 1st..MaxFail-th write_all call.
MaxFail == 2

---------------------------------------------------------------------------
(* ASCII codes used by the source.                                         *)

ch0 == 48
ch9 == 57
chA == 65
chF == 70
cha == 97
chf == 102
chx == 120

Min(a, b) == IF a < b THEN a ELSE b

Ok(v) == [tag |-> "Ok", arg |-> v]
Err(t, v) == [tag |-> t, arg |-> v]
IsOk(r) == r.tag = "Ok"
SameResult(a, b) == a.tag = b.tag /\ a.arg = b.arg

---------------------------------------------------------------------------
(* Nibble codec: src/utils.rs.                                             *)

\* intoval that knows the lowercase letters only.
intoval_lower(c) ==
    IF c >= cha /\ c <= chf THEN Ok(c - cha + 10)
    ELSE IF c >= ch0 /\ c <= ch9 THEN Ok(c - ch0)
    ELSE Err("BadChar", c)

\* intoval: hex digit character to its 4-bit value, else BadChar(c).
intoval(c) ==
    IF c >= chA /\ c <= chF THEN Ok(c - chA + 10)
    ELSE IF c >= cha /\ c <= chf THEN Ok(c - cha + 10)
    ELSE IF c >= ch0 /\ c <= ch9 THEN Ok(c - ch0)
    ELSE Err("BadChar", c)

\* fromval: value 0..15 to its lowercase digit, else BadByte(v).
fromval(v) ==
    IF v >= 10 /\ v <= 15 THEN Ok(v - 10 + cha)
    ELSE IF v >= 0 /\ v <= 9 THEN Ok(v + ch0)
    ELSE Err("BadByte", v)

\* fromvalcaps that writes the letters in lowercase.
fromvalcaps_lower(v) ==
    IF v >= 10 /\ v <= 15 THEN Ok(v - 10 + cha)
    ELSE IF v >= 0 /\ v <= 9 THEN Ok(v + ch0)
    ELSE Err("BadByte", v)

\* fromvalcaps: value 0..15 to its uppercase digit, else BadByte(v).
fromvalcaps(v) ==
    IF v >= 10 /\ v <= 15 THEN Ok(v - 10 + chA)
    ELSE IF v >= 0 /\ v <= 9 THEN Ok(v + ch0)
    ELSE Err("BadByte", v)

\* intobyte that looks at the second character before the first.
intobyte_second_first(a, b) ==
    LET x == intoval(a)
        y == intoval(b)
    IN  IF ~IsOk(y) THEN y
        ELSE IF ~IsOk(x) THEN x
        ELSE Ok(((x.arg * 16) % 256) + y.arg)

\* intobyte that shifts the first digit's value by five bits.
intobyte_shift5(a, b) ==
    LET x == intoval(a)
        y == intoval(b)
    IN  IF ~IsOk(x) THEN x
        ELSE IF ~IsOk(y) THEN y
        ELSE Ok(((x.arg * 32) % 256) + y.arg)

\* intobyte: intoval(a)? << 4 | intoval(b)?.  Both values are below 16, so
\* the u8 shift loses nothing and the bitwise or of the two is their sum.
intobyte(a, b) ==
    LET x == intoval(a)
        y == intoval(b)
    IN  IF ~IsOk(x) THEN x
        ELSE IF ~IsOk(y) THEN y
        ELSE Ok(((x.arg * 16) % 256) + y.arg)

\* frombyte with the two digits in the wrong order (low nibble first).
frombyte_swapped(val) ==
    LET a == fromval(val \div 16)
        b == fromval(val % 16)
    IN  IF ~IsOk(a) THEN a
        ELSE IF ~IsOk(b) THEN b
        ELSE Ok(<<b.arg, a.arg>>)

\* frombyte: (fromval(val >> 4)?, fromval(val & 0x0f)?).
frombyte(val) ==
    LET a == fromval(val \div 16)
        b == fromval(val % 16)
    IN  IF ~IsOk(a) THEN a
        ELSE IF ~IsOk(b) THEN b
        ELSE Ok(<<a.arg, b.arg>>)

\* frombytecaps that shifts by 3 instead of 4: the high value exceeds 15.
frombytecaps_shift3(val) ==
    LET a == fromvalcaps(val \div 8)
        b == fromvalcaps(val % 16)
    IN  IF ~IsOk(a) THEN a
        ELSE IF ~IsOk(b) THEN b
        ELSE Ok(<<a.arg, b.arg>>)

\* frombytecaps: (fromvalcaps(val >> 4)?, fromvalcaps(val & 0x0f)?).
frombytecaps(val) ==
    LET a == fromvalcaps(val \div 16)
        b == fromvalcaps(val % 16)
    IN  IF ~IsOk(a) THEN a
        ELSE IF ~IsOk(b) THEN b
        ELSE Ok(<<a.arg, b.arg>>)

---------------------------------------------------------------------------
(* Buffer codec: src/utils.rs.                                             *)

\* The loop of fromhex from pair idx on (0-based): buf[idx] = intobyte(..)?.
\* The result carries the buffer as the loop left it.
RECURSIVE fromhex_loop(_, _, _)
fromhex_loop(buf, hex, idx) ==
    IF idx >= Len(buf) THEN [res |-> Ok(0), buf |-> buf]
    ELSE LET b == intobyte(hex[2 * idx + 1], hex[2 * idx + 2])
         IN  IF ~IsOk(b) THEN [res |-> b, buf |-> buf]
             ELSE fromhex_loop([buf EXCEPT ![idx + 1] = b.arg], hex, idx + 1)

\* fromhex that reports the size of the buffer instead of the text's.
fromhex_bufsize(buf, hex) ==
    IF Len(hex) # Len(buf) * 2
    THEN [res |-> Err("BadSize", Len(buf)), buf |-> buf]
    ELSE fromhex_loop(buf, hex, 0)

\* fromhex that restores the buffer when a pair fails to decode.
fromhex_rollback(buf, hex) ==
    IF Len(hex) # Len(buf) * 2
    THEN [res |-> Err("BadSize", Len(hex)), buf |-> buf]
    ELSE LET r == fromhex_loop(buf, hex, 0)
         IN  IF IsOk(r.res) THEN r ELSE [res |-> r.res, buf |-> buf]

\* fromhex(buf, src): BadSize(src.len()) unless src.len() == buf.len() * 2,
\* else the pairs of src decoded left to right into buf.
fromhex(buf, hex) ==
    IF Len(hex) # Len(buf) * 2
    THEN [res |-> Err("BadSize", Len(hex)), buf |-> buf]
    ELSE fromhex_loop(buf, hex, 0)

\* The loop of intohex writing byte i at offset i instead of 2 * i.
RECURSIVE intohex_loop_stride1(_, _, _)
intohex_loop_stride1(buf, bytes, i) ==
    IF i >= Len(bytes) THEN [res |-> Ok(0), buf |-> buf]
    ELSE LET p == frombyte(bytes[i + 1])
         IN  IF ~IsOk(p) THEN [res |-> p, buf |-> buf]
             ELSE intohex_loop_stride1([buf EXCEPT ![i + 1] = p.arg[1],
                                                   ![i + 2] = p.arg[2]],
                                       bytes, i + 1)

\* The loop of intohex from byte i on (0-based).
RECURSIVE intohex_loop(_, _, _)
intohex_loop(buf, bytes, i) ==
    IF i >= Len(bytes) THEN [res |-> Ok(0), buf |-> buf]
    ELSE LET p == frombyte(bytes[i + 1])
         IN  IF ~IsOk(p) THEN [res |-> p, buf |-> buf]
             ELSE intohex_loop([buf EXCEPT ![2 * i + 1] = p.arg[1],
                                           ![2 * i + 2] = p.arg[2]],
                               bytes, i + 1)

\* intohex(buf, src): BadSize(buf.len()) unless buf.len() == src.len() * 2.
intohex(buf, bytes) ==
    IF Len(buf) # Len(bytes) * 2
    THEN [res |-> Err("BadSize", Len(buf)), buf |-> buf]
    ELSE intohex_loop(buf, bytes, 0)

\* The loop of intohexcaps from byte i on (0-based).
RECURSIVE intohexcaps_loop(_, _, _)
intohexcaps_loop(buf, bytes, i) ==
    IF i >= Len(bytes) THEN [res |-> Ok(0), buf |-> buf]
    ELSE LET p == frombytecaps(bytes[i + 1])
         IN  IF ~IsOk(p) THEN [res |-> p, buf |-> buf]
             ELSE intohexcaps_loop([buf EXCEPT ![2 * i + 1] = p.arg[1],
                                               ![2 * i + 2] = p.arg[2]],
                                   bytes, i + 1)

\* intohexcaps(buf, src): as intohex, with capital digits.
intohexcaps(buf, bytes) ==
    IF Len(buf) # Len(bytes) * 2
    THEN [res |-> Err("BadSize", Len(buf)), buf |-> buf]
    ELSE intohexcaps_loop(buf, bytes, 0)

---------------------------------------------------------------------------
(* The sink (io::Write) handed to into_hex_raw.                            *)
(* A sink is [buf, calls, failAt, partial, log]: buf is what it has        *)
(* received, calls the number of write_all calls made on it; its failAt-th *)
(* write_all call fails after taking `partial` bytes of the chunk (fewer   *)
(* than the whole chunk); failAt = 0 is a sink that never fails, such as a *)
(* Vec.  log records the chunk of every write_all call made, in order.     *)

NewSink(failAt, partial) ==
    [buf |-> <<>>, calls |-> 0, failAt |-> failAt, partial |-> partial,
     log |-> <<>>]

\* dst.write_all(chunk)?
write_all(d, chunk) ==
    IF d.failAt = d.calls + 1
    THEN [res |-> Err("IoError", 0),
          dst |-> [d EXCEPT !.calls = @ + 1,
                            !.log = Append(@, chunk),
                            !.buf = @ \o SubSeq(chunk, 1,
                                        Min(d.partial, Len(chunk) - 1))]]
    ELSE [res |-> Ok(0),
          dst |-> [d EXCEPT !.calls = @ + 1,
                            !.log = Append(@, chunk),
                            !.buf = @ \o chunk]]

\* writehex that drops the sink's error and goes on writing.
RECURSIVE writehex_ignore(_, _)
writehex_ignore(bytes, d) ==
    IF bytes = <<>> THEN [res |-> Ok(0), dst |-> d]
    ELSE LET p == frombyte(Head(bytes))
         IN  IF ~IsOk(p) THEN [res |-> p, dst |-> d]
             ELSE writehex_ignore(Tail(bytes), write_all(d, p.arg).dst)

\* writehex(src, dst): for each byte, frombyte(byte)? then write_all(&[a,b])?.
RECURSIVE writehex(_, _)
writehex(bytes, d) ==
    IF bytes = <<>> THEN [res |-> Ok(0), dst |-> d]
    ELSE LET p == frombyte(Head(bytes))
         IN  IF ~IsOk(p) THEN [res |-> p, dst |-> d]
             ELSE LET w == write_all(d, p.arg)
                  IN  IF ~IsOk(w.res) THEN w
                      ELSE writehex(Tail(bytes), w.dst)

\* writehexcaps(src, dst): as writehex, with frombytecaps.
RECURSIVE writehexcaps(_, _)
writehexcaps(bytes, d) ==
    IF bytes = <<>> THEN [res |-> Ok(0), dst |-> d]
    ELSE LET p == frombytecaps(Head(bytes))
         IN  IF ~IsOk(p) THEN [res |-> p, dst |-> d]
             ELSE LET w == write_all(d, p.arg)
                  IN  IF ~IsOk(w.res) THEN w
                      ELSE writehexcaps(Tail(bytes), w.dst)

---------------------------------------------------------------------------
(* Format policy (HexConf) and the codec contract: src/lib.rs.             *)

HexConf == [compact : BOOLEAN, withpfx : BOOLEAN, withcap : BOOLEAN]

Strict         == [compact |-> FALSE, withpfx |-> FALSE, withcap |-> FALSE]
StrictPfx      == [compact |-> FALSE, withpfx |-> TRUE,  withcap |-> FALSE]
StrictCaps     == [compact |-> FALSE, withpfx |-> FALSE, withcap |-> TRUE]
StrictCapsPfx  == [compact |-> FALSE, withpfx |-> TRUE,  withcap |-> TRUE]
Compact        == [compact |-> TRUE,  withpfx |-> FALSE, withcap |-> FALSE]
CompactPfx     == [compact |-> TRUE,  withpfx |-> TRUE,  withcap |-> FALSE]
CompactCaps    == [compact |-> TRUE,  withpfx |-> FALSE, withcap |-> TRUE]
CompactCapsPfx == [compact |-> TRUE,  withpfx |-> TRUE,  withcap |-> TRUE]

\* "0x".as_bytes()
pfx == <<ch0, chx>>

\* raw.starts_with(p)
starts_with(s, p) == Len(s) >= Len(p) /\ SubSeq(s, 1, Len(p)) = p

\* find_nonzero that does not skip leading zero bytes: index 0 whenever some
\* byte is non-zero.
find_nonzero_first(bytes) ==
    IF \E i \in 1..Len(bytes) : bytes[i] > 0 THEN 0 ELSE -1

\* src.iter().enumerate().find(|&(_,v)| *v > 0u8): the 0-based index of the
\* first non-zero byte, or -1 for None.
find_nonzero(bytes) ==
    IF \E i \in 1..Len(bytes) : bytes[i] > 0
    THEN (CHOOSE i \in 1..Len(bytes) :
             bytes[i] > 0 /\ \A j \in 1..(i - 1) : bytes[j] = 0) - 1
    ELSE -1

\* &src[from..] for a 0-based from.
slice_from(s, from) == SubSeq(s, from + 1, Len(s))

\* into_hex_body that writes nothing for an all-zero container.
into_hex_body_empty(C, bytes, d) ==
    IF C.compact
    THEN LET idx == find_nonzero(bytes)
         IN  IF idx >= 0
             THEN LET val == bytes[idx + 1]
                  IN  IF val < 16
                      THEN LET c == IF C.withcap THEN fromvalcaps(val)
                                                 ELSE fromval(val)
                           IN  IF ~IsOk(c) THEN [res |-> c, dst |-> d]
                               ELSE LET w == write_all(d, <<c.arg>>)
                                    IN  IF ~IsOk(w.res) THEN w
                                        ELSE IF C.withcap
                                        THEN writehexcaps(slice_from(bytes, idx + 1), w.dst)
                                        ELSE writehex(slice_from(bytes, idx + 1), w.dst)
                      ELSE IF C.withcap
                           THEN writehexcaps(slice_from(bytes, idx), d)
                           ELSE writehex(slice_from(bytes, idx), d)
             ELSE [res |-> Ok(0), dst |-> d]
    ELSE IF C.withcap THEN writehexcaps(bytes, d)
                      ELSE writehex(bytes, d)

\* into_hex_body that writes the first significant byte as a full pair even
\* when it is below 0x10.
into_hex_body_pair(C, bytes, d) ==
    IF C.compact
    THEN LET idx == find_nonzero(bytes)
         IN  IF idx >= 0
             THEN IF C.withcap
                  THEN writehexcaps(slice_from(bytes, idx), d)
                  ELSE writehex(slice_from(bytes, idx), d)
             ELSE write_all(d, <<ch0>>)
    ELSE IF C.withcap THEN writehexcaps(bytes, d)
                      ELSE writehex(bytes, d)

\* The part of into_hex_raw after the prefix write.
into_hex_body(C, bytes, d) ==
    IF C.compact
    THEN LET idx == find_nonzero(bytes)
         IN  IF idx >= 0
             THEN LET val == bytes[idx + 1]
                  IN  IF val < 16
                      THEN LET c == IF C.withcap THEN fromvalcaps(val)
                                                 ELSE fromval(val)
                           IN  IF ~IsOk(c) THEN [res |-> c, dst |-> d]
                               ELSE LET w == write_all(d, <<c.arg>>)
                                    IN  IF ~IsOk(w.res) THEN w
                                        ELSE IF C.withcap
                                        THEN writehexcaps(slice_from(bytes, idx + 1), w.dst)
                                        ELSE writehex(slice_from(bytes, idx + 1), w.dst)
                      ELSE IF C.withcap
                           THEN writehexcaps(slice_from(bytes, idx), d)
                           ELSE writehex(slice_from(bytes, idx), d)
             ELSE write_all(d, <<ch0>>)
    ELSE IF C.withcap THEN writehexcaps(bytes, d)
                      ELSE writehex(bytes, d)

\* into_hex_raw of a container of bytes under policy C into sink d:
\* [res, dst], the Result and the sink as the call left it.
into_hex_raw(C, bytes, d) ==
    IF C.withpfx
    THEN LET w == write_all(d, pfx)
         IN  IF ~IsOk(w.res) THEN w ELSE into_hex_body(C, bytes, w.dst)
    ELSE into_hex_body(C, bytes, d)

\* strip_pfx that never strips.
strip_pfx_never(C, text) == text

\* The text from_hex_raw decodes: raw without a leading "0x" when the policy
\* has withpfx and raw starts with it, raw itself otherwise.
strip_pfx(C, text) ==
    IF C.withpfx
    THEN IF starts_with(text, pfx) THEN slice_from(text, 2) ELSE text
    ELSE text

\* from_hex_raw that drops the lone leading digit of an odd-length body.
from_hex_raw_nohead(C, n, text) ==
    LET hex == strip_pfx(C, text)
        buf == [i \in 1..n |-> 0]
    IN  IF C.compact
        THEN IF Len(hex) = 0 \/ Len(hex) > n * 2
             THEN Err("BadSize", Len(hex))
             ELSE LET body == n - (Len(hex) \div 2)
                      head == Len(hex) % 2
                      r == fromhex(slice_from(buf, body), slice_from(hex, head))
                  IN  IF ~IsOk(r.res) THEN r.res
                      ELSE Ok(SubSeq(buf, 1, body) \o r.buf)
        ELSE LET r == fromhex(buf, hex)
             IN  IF ~IsOk(r.res) THEN r.res ELSE Ok(r.buf)

\* from_hex_raw that takes the lone leading digit as a high nibble.
from_hex_raw_headhigh(C, n, text) ==
    LET hex == strip_pfx(C, text)
        buf == [i \in 1..n |-> 0]
    IN  IF C.compact
        THEN IF Len(hex) = 0 \/ Len(hex) > n * 2
             THEN Err("BadSize", Len(hex))
             ELSE LET body == n - (Len(hex) \div 2)
                      head == Len(hex) % 2
                      b    == intobyte(hex[1], ch0)
                  IN  IF head > 0 /\ ~IsOk(b) THEN b
                      ELSE LET buf1 == IF head > 0
                                       THEN [buf EXCEPT ![body - head + 1] = b.arg]
                                       ELSE buf
                               r == fromhex(slice_from(buf1, body),
                                            slice_from(hex, head))
                           IN  IF ~IsOk(r.res) THEN r.res
                               ELSE Ok(SubSeq(buf1, 1, body) \o r.buf)
        ELSE LET r == fromhex(buf, hex)
             IN  IF ~IsOk(r.res) THEN r.res ELSE Ok(r.buf)

\* from_hex_raw without the check for an empty body.
from_hex_raw_noempty(C, n, text) ==
    LET hex == strip_pfx(C, text)
        buf == [i \in 1..n |-> 0]
    IN  IF C.compact
        THEN IF Len(hex) > n * 2
             THEN Err("BadSize", Len(hex))
             ELSE LET body == n - (Len(hex) \div 2)
                      head == Len(hex) % 2
                      b    == intobyte(ch0, hex[1])
                  IN  IF head > 0 /\ ~IsOk(b) THEN b
                      ELSE LET buf1 == IF head > 0
                                       THEN [buf EXCEPT ![body - head + 1] = b.arg]
                                       ELSE buf
                               r == fromhex(slice_from(buf1, body),
                                            slice_from(hex, head))
                           IN  IF ~IsOk(r.res) THEN r.res
                               ELSE Ok(SubSeq(buf1, 1, body) \o r.buf)
        ELSE LET r == fromhex(buf, hex)
             IN  IF ~IsOk(r.res) THEN r.res ELSE Ok(r.buf)

\* from_hex_raw for a container of n bytes under policy C: Ok(buf) or the error.
from_hex_raw(C, n, text) ==
    LET hex == strip_pfx(C, text)
        buf == [i \in 1..n |-> 0]
    IN  IF C.compact
        THEN IF Len(hex) = 0 \/ Len(hex) > n * 2
             THEN Err("BadSize", Len(hex))
             ELSE LET body == n - (Len(hex) \div 2)
                      head == Len(hex) % 2
                      b    == intobyte(ch0, hex[1])
                  IN  IF head > 0 /\ ~IsOk(b) THEN b
                      ELSE LET buf1 == IF head > 0
                                       THEN [buf EXCEPT ![body - head + 1] = b.arg]
                                       ELSE buf
                               r == fromhex(slice_from(buf1, body),
                                            slice_from(hex, head))
                           IN  IF ~IsOk(r.res) THEN r.res
                               ELSE Ok(SubSeq(buf1, 1, body) \o r.buf)
        ELSE LET r == fromhex(buf, hex)
             IN  IF ~IsOk(r.res) THEN r.res ELSE Ok(r.buf)

---------------------------------------------------------------------------
(* The policy-free macros of src/macros/hex.rs.  They always write the     *)
(* "0x" prefix and lowercase digits, and always take a leading "0x" off.   *)

\* vec![0u8; k]
zeros(k) == [i \in 1..k |-> 0]

\* into_hex_strict!(src, len): Ok(the text) or the error of intohex.
into_hex_strict(bytes, n) ==
    LET hex == [zeros(2 + n * 2) EXCEPT ![1] = ch0, ![2] = chx]
        r   == intohex(slice_from(hex, 2), bytes)
    IN  IF IsOk(r.res) THEN Ok(SubSeq(hex, 1, 2) \o r.buf) ELSE r.res

\* from_hex_strict!(src, len): Ok(buf) or the error of fromhex.
from_hex_strict(text, n) ==
    LET hex == IF starts_with(text, pfx) THEN slice_from(text, 2) ELSE text
        r   == fromhex(zeros(n), hex)
    IN  IF IsOk(r.res) THEN Ok(r.buf) ELSE r.res

\* into_hex_compact!(src, len): Ok(the text) or the error.
into_hex_compact(bytes, n) ==
    LET idx == find_nonzero(bytes)
    IN  IF idx >= 0
        THEN LET val == bytes[idx + 1]
                 rem == IF val <= 15 THEN 1 ELSE 0
                 buf == [zeros((Len(bytes) - idx) * 2 + 2 - rem)
                             EXCEPT ![1] = ch0, ![2] = chx]
                 r   == intohex(slice_from(buf, 2 + rem),
                                slice_from(bytes, idx + rem))
                 buf1 == SubSeq(buf, 1, 2 + rem) \o r.buf
             IN  IF ~IsOk(r.res) THEN r.res
                 ELSE IF rem > 0
                      THEN LET c == fromval(bytes[idx + 1])
                           IN  IF IsOk(c) THEN Ok([buf1 EXCEPT ![3] = c.arg])
                               ELSE c
                      ELSE Ok(buf1)
        ELSE Ok(<<ch0, chx, ch0>>)

\* from_hex_compact!(src, len): the pairs are decoded first, the lone leading
\* digit of an odd-length body after them.
from_hex_compact(text, n) ==
    LET hex == IF starts_with(text, pfx) THEN slice_from(text, 2) ELSE text
    IN  IF Len(hex) = 0 \/ Len(hex) > n * 2
        THEN Err("BadSize", Len(hex))
        ELSE LET body == n - (Len(hex) \div 2)
                 head == Len(hex) % 2
                 buf  == zeros(n)
                 r    == fromhex(slice_from(buf, body), slice_from(hex, head))
                 buf1 == SubSeq(buf, 1, body) \o r.buf
             IN  IF ~IsOk(r.res) THEN r.res
                 ELSE IF head > 0
                      THEN LET b == intobyte(ch0, hex[1])
                           IN  IF IsOk(b)
                               THEN Ok([buf1 EXCEPT ![body - head + 1] = b.arg])
                               ELSE b
                      ELSE Ok(buf1)

---------------------------------------------------------------------------
(* Inputs.                                                                 *)

Policies == {Strict, StrictPfx, StrictCaps, StrictCapsPfx,
             Compact, CompactPfx, CompactCaps, CompactCapsPfx}

Bytes == 0..255

\* Byte values that exercise every branch of the encoder: zero, a value
\* below 0x10, 0x10 itself, and values with letters in either nibble.
SampleBytes == {0, 1, 15, 16, 171, 255}

\* Containers of n bytes: every byte value for n = 1, the samples beyond.
Buffers(n) == IF n = 1 THEN [1..n -> Bytes] ELSE [1..n -> SampleBytes]

\* Characters of the texts handed to from_hex_raw: '0', 'b', 'E' and the
\* non-hex 'g'.
SampleChars == {ch0, 98, 69, 103}

\* Text bodies for a container of n bytes: every length from the empty text
\* to one past the longest the container accepts, at most MaxText.
TextsFor(n) ==
    UNION {[1..k -> SampleChars] : k \in 0..Min(2 * n + 1, MaxText)}

\* Texts with two different non-hex characters, 'g' and 'z', among '0's, of
\* the same lengths: which character an error names tells where the decoder
\* looked first.
ErrorTextsFor(n) ==
    UNION {[1..k -> {ch0, 103, 122}] : k \in 0..Min(2 * n + 1, MaxText)}

Sinks == {NewSink(0, 0)}
         \cup {NewSink(f, p) : f \in 1..MaxFail, p \in 0..1}

NoResult == Err("None", 0)

\* The inputs of the repository's own tests and of the specification's
\* examples: [conf, len, src] to encode, [conf, len, raw] to decode.
EncodeExamples ==
    {[len |-> 4, src |-> <<0, 15, 255, 17>>],
     [len |-> 4, src |-> <<0, 1, 2, 3>>],
     [len |-> 4, src |-> <<16, 32, 64, 128>>],
     [len |-> 8, src |-> <<0, 0, 0, 0, 0, 0, 0, 255>>],
     [len |-> 8, src |-> <<0, 0, 0, 0, 0, 0, 0, 0>>]}

DecodeExamples ==
    {[len |-> 4, raw |-> <<102, 97, 97, 102, 102, 97, 97>>],
     [len |-> 4, raw |-> <<ch0, chx, 102, 97, 97, 102, 102, 97, 97>>],
     [len |-> 8, raw |-> <<ch0, chx, 49, 50, 51, 52>>],
     [len |-> 3, raw |-> <<65, 65, 66, 66, 67, 67>>],
     [len |-> 3, raw |-> <<97, 97, 98, 98, 99, 99>>]}

\* Byte buffers handed to fromhex: up to MaxLen bytes, zeroed (as the tests
\* allocate them) or holding earlier contents (7).
ByteBuffers == UNION {[1..k -> {0, 7}] : k \in 0..MaxLen}

\* Hex texts handed to fromhex: every text of up to MaxText characters.
HexTexts == UNION {[1..k -> SampleChars] : k \in 0..MaxText}

\* The texts of the test hex_strings: "ff", "aa", "f0f0", "a0a0", "1234",
\* "5678", "0000", "0123456789abfdef".
HexStrings ==
    {<<102, 102>>, <<97, 97>>, <<102, 48, 102, 48>>, <<97, 48, 97, 48>>,
     <<49, 50, 51, 52>>, <<53, 54, 55, 56>>, <<48, 48, 48, 48>>,
     <<48, 49, 50, 51, 52, 53, 54, 55, 56, 57, 97, 98, 102, 100, 101, 102>>}

\* Characters of the pairs handed to intobyte: every lowercase hex digit,
\* the uppercase 'E' and the non-hex 'g'.
PairChars == (ch0..ch9) \cup (cha..chf) \cup {69, 103}

---------------------------------------------------------------------------
(* The state machine: a container value is encoded into a sink, the text a *)
(* sink received is decoded again, and texts are decoded, re-spelled with  *)
(* a "0x" prefix or in another letter case, and decoded again.             *)
(*   api        "core": the type is bound by impl_core_bytearray, with a   *)
(*              policy; "macro": it is bound by impl_hex_array_strict! or  *)
(*              impl_hex_array_compact!, whose fixed format is that of     *)
(*              StrictPfx or CompactPfx                                    *)
(*   conf, len  the policy C and the container size $len of the binding    *)
(*   src        the container's bytes (self.as_ref())                      *)
(*   dst        the sink into_hex_raw writes to                            *)
(*   raw        the text handed to from_hex_raw                            *)
(*   res, out   the Result of into_hex_raw, of from_hex_raw                *)
(*   prev, rel  the Result for the text raw was derived from, and how raw  *)
(*              was derived: "enc" the sink's content, "pfx" "0x" put in   *)
(*              front, "case" letters re-cased, "none" a fresh text; "dec" *)
(*              while src is the value decoded from raw, being re-encoded  *)
(* and the functions of src/utils.rs are called directly (api = "utils"):  *)
(*   bytebuf    the byte buffer handed to fromhex as &mut [u8]             *)
(*   hexbuf     the hex buffer handed to intohex / intohexcaps             *)

\* The formats of the types bound by the macros of src/macros/hex.rs.
MacroFormats == {StrictPfx, CompactPfx}

InitEncode ==
    /\ \/ /\ len \in 1..MaxLen
          /\ src \in Buffers(len)
       \/ \E e \in EncodeExamples : len = e.len /\ src = e.src
    /\ \/ api = "core" /\ conf \in Policies /\ dst \in Sinks
       \/ api = "macro" /\ conf \in MacroFormats /\ dst = NewSink(0, 0)
    /\ raw = <<>>
    /\ bytebuf = <<>>
    /\ hexbuf = <<>>
    /\ pc = "value"

InitDecode ==
    /\ \/ api = "core" /\ conf \in Policies
       \/ api = "macro" /\ conf \in MacroFormats
    /\ \/ /\ len \in 1..MaxLen
          /\ raw \in TextsFor(len) \cup ErrorTextsFor(len)
       \/ \E e \in DecodeExamples : len = e.len /\ raw = e.raw
    /\ src = <<>>
    /\ dst = NewSink(0, 0)
    /\ bytebuf = <<>>
    /\ hexbuf = <<>>
    /\ pc = "text"

\* Direct calls of src/utils.rs: a byte for frombyte / frombytecaps, a pair
\* for intobyte, a byte buffer and a hex text for fromhex.
InitUtils ==
    /\ api = "utils"
    /\ conf = Strict
    /\ dst = NewSink(0, 0)
    /\ hexbuf = <<>>
    /\ \/ /\ pc = "byte"
          /\ src \in [1..1 -> Bytes]
          /\ raw = <<>>
          /\ bytebuf = <<>>
       \/ /\ pc = "pair"
          /\ src = <<>>
          /\ raw \in [1..2 -> PairChars]
          /\ bytebuf = <<>>
       \/ /\ pc = "hex"
          /\ src = <<>>
          /\ \/ bytebuf \in ByteBuffers /\ raw \in HexTexts
             \/ \E h \in HexStrings :
                    raw = h /\ bytebuf = zeros(Len(h) \div 2)
    /\ len = Len(bytebuf)

Init ==
    /\ InitEncode \/ InitDecode \/ InitUtils
    /\ res = NoResult
    /\ out = NoResult
    /\ prev = NoResult
    /\ rel = "none"

\* self.into_hex_raw(dst)
IntoHexRaw ==
    /\ api = "core"
    /\ pc = "value"
    /\ LET r == into_hex_raw(conf, src, dst)
       IN  res' = r.res /\ dst' = r.dst
    /\ pc' = "encoded"
    /\ UNCHANGED <<bytebuf, hexbuf, api, conf, len, src, raw, out, prev, rel>>

\* self.into_hex() of a type bound by impl_hex_array_strict! or
\* impl_hex_array_compact!: dst.buf is the String it returns.
IntoHex ==
    /\ api = "macro"
    /\ pc = "value"
    /\ LET r == IF conf.compact THEN into_hex_compact(src, len)
                                ELSE into_hex_strict(src, len)
       IN  /\ res' = IF IsOk(r) THEN Ok(0) ELSE r
           /\ dst' = [dst EXCEPT !.buf = IF IsOk(r) THEN r.arg ELSE <<>>]
    /\ pc' = "encoded"
    /\ UNCHANGED <<bytebuf, hexbuf, api, conf, len, src, raw, out, prev, rel>>

\* The text an encode call produced is handed to the decoder.
Feed ==
    /\ pc = "encoded"
    /\ IsOk(res)
    /\ raw' = dst.buf
    /\ rel' = "enc"
    /\ pc' = "text"
    /\ UNCHANGED <<bytebuf, hexbuf, api, conf, len, src, dst, res, out, prev>>

\* Self::from_hex_raw(raw)
FromHexRaw ==
    /\ api = "core"
    /\ pc = "text"
    /\ out' = from_hex_raw(conf, len, raw)
    /\ pc' = "decoded"
    /\ UNCHANGED <<bytebuf, hexbuf, api, conf, len, src, dst, raw, res, prev, rel>>

\* Self::from_hex(raw) of a type bound by impl_hex_array_strict! or
\* impl_hex_array_compact!.
FromHex ==
    /\ api = "macro"
    /\ pc = "text"
    /\ out' = IF conf.compact THEN from_hex_compact(raw, len)
                              ELSE from_hex_strict(raw, len)
    /\ pc' = "decoded"
    /\ UNCHANGED <<bytebuf, hexbuf, api, conf, len, src, dst, raw, res, prev, rel>>

\* The value a decode call returned is encoded again, into a fresh sink.
Reencode ==
    /\ api \in {"core", "macro"}
    /\ pc = "decoded"
    /\ rel = "none"
    /\ IsOk(out)
    /\ src' = out.arg
    /\ prev' = out
    /\ rel' = "dec"
    /\ pc' = "value"
    /\ UNCHANGED <<bytebuf, hexbuf, api, conf, len, dst, raw, res, out>>

IsHexDigit(c) ==
    c \in (ch0..ch9) \cup (chA..chF) \cup (cha..chf)

IsHexText(s) == \A i \in 1..Len(s) : IsHexDigit(s[i])

\* The two spellings of a character: a letter's lower and upper case.
Spellings(c) ==
    IF c >= 65 /\ c <= 90 THEN {c, c + 32}
    ELSE IF c >= 97 /\ c <= 122 THEN {c, c - 32}
    ELSE {c}

\* Every text that differs from s in the case of letters only.
CaseVariants(s) ==
    {t \in [1..Len(s) -> UNION {Spellings(s[i]) : i \in 1..Len(s)}] :
        \A i \in 1..Len(s) : t[i] \in Spellings(s[i])}

\* A decoded text is handed in again with "0x" in front.
AddPrefix ==
    /\ pc = "decoded"
    /\ rel = "none"
    /\ raw' = pfx \o raw
    /\ prev' = out
    /\ rel' = "pfx"
    /\ pc' = "text"
    /\ UNCHANGED <<bytebuf, hexbuf, api, conf, len, src, dst, res, out>>

\* A decoded text of hex digits is handed in again in another letter case.
Recase ==
    /\ pc = "decoded"
    /\ rel = "none"
    /\ IsHexText(raw)
    /\ \E t \in CaseVariants(raw) \ {raw} : raw' = t
    /\ prev' = out
    /\ rel' = "case"
    /\ pc' = "text"
    /\ UNCHANGED <<bytebuf, hexbuf, api, conf, len, src, dst, res, out>>

\* frombyte(v): of a fresh byte, or of the byte intobyte returned.
FromByte ==
    /\ api = "utils"
    /\ \/ pc = "byte" /\ out' = frombyte(src[1]) /\ pc' = "pair_of_byte"
       \/ pc = "byte_of_pair" /\ IsOk(out)
            /\ out' = frombyte(out.arg) /\ pc' = "pair_back"
    /\ prev' = out
    /\ rel' = "lower"
    /\ UNCHANGED <<bytebuf, hexbuf, api, conf, len, src, dst, raw, res>>

\* frombytecaps(v): of a fresh byte, or of the byte intobyte returned.
FromByteCaps ==
    /\ api = "utils"
    /\ \/ pc = "byte" /\ out' = frombytecaps(src[1]) /\ pc' = "pair_of_byte"
       \/ pc = "byte_of_pair" /\ IsOk(out)
            /\ out' = frombytecaps(out.arg) /\ pc' = "pair_back"
    /\ prev' = out
    /\ rel' = "caps"
    /\ UNCHANGED <<bytebuf, hexbuf, api, conf, len, src, dst, raw, res>>

\* intobyte(a, b): of a fresh pair, or of the pair frombyte / frombytecaps
\* returned.
IntoByte ==
    /\ api = "utils"
    /\ \/ pc = "pair" /\ out' = intobyte(raw[1], raw[2])
            /\ pc' = "byte_of_pair"
       \/ pc = "pair_of_byte" /\ IsOk(out)
            /\ out' = intobyte(out.arg[1], out.arg[2]) /\ pc' = "byte_back"
    /\ prev' = out
    /\ UNCHANGED <<bytebuf, hexbuf, api, conf, len, src, dst, raw, res, rel>>

\* fromhex(&mut bytebuf, raw)
FromHexBuf ==
    /\ api = "utils"
    /\ pc = "hex"
    /\ LET r == fromhex(bytebuf, raw)
       IN  out' = r.res /\ bytebuf' = r.buf
    /\ pc' = "fromhex_done"
    /\ UNCHANGED <<hexbuf, api, conf, len, src, dst, raw, res, prev, rel>>

\* intohex(&mut hexbuf, &bytebuf) into a buffer of bytebuf.len() * 2 zeros,
\* after fromhex filled bytebuf (test hex_strings).
IntoHexBuf ==
    /\ api = "utils"
    /\ pc = "fromhex_done"
    /\ IsOk(out)
    /\ LET r == intohex(zeros(Len(bytebuf) * 2), bytebuf)
       IN  out' = r.res /\ hexbuf' = r.buf
    /\ prev' = out
    /\ rel' = "lower"
    /\ pc' = "intohex_done"
    /\ UNCHANGED <<bytebuf, api, conf, len, src, dst, raw, res>>

\* intohexcaps(&mut hexbuf, &bytebuf), likewise.
IntoHexCapsBuf ==
    /\ api = "utils"
    /\ pc = "fromhex_done"
    /\ IsOk(out)
    /\ LET r == intohexcaps(zeros(Len(bytebuf) * 2), bytebuf)
       IN  out' = r.res /\ hexbuf' = r.buf
    /\ prev' = out
    /\ rel' = "caps"
    /\ pc' = "intohex_done"
    /\ UNCHANGED <<bytebuf, api, conf, len, src, dst, raw, res>>

Next ==
    \/ IntoHexRaw
    \/ IntoHex
    \/ Feed
    \/ Reencode
    \/ FromHexRaw
    \/ FromHex
    \/ AddPrefix
    \/ Recase
    \/ FromByte
    \/ FromByteCaps
    \/ IntoByte
    \/ FromHexBuf
    \/ IntoHexBuf
    \/ IntoHexCapsBuf

Spec == Init /\ [][Next]_vars

---------------------------------------------------------------------------
(* Vocabulary of the properties, defined apart from the codec.             *)

\* The state after into_hex_raw wrote into a sink that never fails.
Encoded == pc = "encoded" /\ dst.failAt = 0

\* The state after from_hex_raw decoded the text an encode call produced.
RoundTripped == pc = "decoded" /\ rel = "enc"

\* What the policy puts in front of the body.
PolicyPrefix(C) == IF C.withpfx THEN <<ch0, chx>> ELSE <<>>

\* The text the sink received, without the policy's prefix.
EncodedBody == SubSeq(dst.buf, Len(PolicyPrefix(conf)) + 1, Len(dst.buf))

AllZero(s) == \A i \in 1..Len(s) : s[i] = 0

\* The number of leading zero bytes of s.
RECURSIVE LeadingZeros(_)
LeadingZeros(s) ==
    IF s = <<>> \/ Head(s) # 0 THEN 0 ELSE 1 + LeadingZeros(Tail(s))

\* s read as a big-endian number.
RECURSIVE BigEndian(_)
BigEndian(s) ==
    IF s = <<>> THEN 0
    ELSE BigEndian(SubSeq(s, 1, Len(s) - 1)) * 256 + s[Len(s)]

\* The digits "0123456789abcdef" and "0123456789ABCDEF".
LowerDigits == <<48, 49, 50, 51, 52, 53, 54, 55, 56, 57,
                 97, 98, 99, 100, 101, 102>>
UpperDigits == <<48, 49, 50, 51, 52, 53, 54, 55, 56, 57,
                 65, 66, 67, 68, 69, 70>>

\* The minimal hexadecimal numeral of v >= 0 in the given case.
RECURSIVE HexNumeral(_, _)
HexNumeral(v, caps) ==
    LET d == (IF caps THEN UpperDigits ELSE LowerDigits)[(v % 16) + 1]
    IN  IF v < 16 THEN <<d>> ELSE HexNumeral(v \div 16, caps) \o <<d>>

---------------------------------------------------------------------------
(* Properties.                                                             *)

\* C1 (strict round-trip): under every strict policy, encoding a container
\* into a sink that never fails succeeds, and decoding the text it wrote
\* under the same policy succeeds and returns exactly the container's bytes.
StrictRoundTrip ==
    /\ (Encoded /\ ~conf.compact) => IsOk(res)
    /\ (RoundTripped /\ ~conf.compact) => (IsOk(out) /\ out.arg = src)

StrictRoundTripWitness ==
    /\ RoundTripped
    /\ conf = StrictCaps
    /\ src = <<1, 171>>
    /\ raw = <<48, 49, 65, 66>>
    /\ IsOk(out)

\* C2 (compact round-trip): under every compact policy, encoding a container
\* into a sink that never fails succeeds, and decoding the text it wrote
\* under the same policy succeeds and returns exactly the container's bytes:
\* all-zero containers, leading zero bytes and a first non-zero byte below
\* 0x10 included.
CompactRoundTrip ==
    /\ (Encoded /\ conf.compact) => IsOk(res)
    /\ (RoundTripped /\ conf.compact) => (IsOk(out) /\ out.arg = src)

CompactRoundTripWitness ==
    /\ RoundTripped
    /\ conf = CompactPfx
    /\ src = <<0, 15>>
    /\ raw = <<48, 120, 102>>
    /\ IsOk(out)

\* C3 (all-zero compact): under a compact policy the all-zero container
\* encodes to exactly "0", after "0x" iff the policy has withpfx; and under
\* every policy the text after the policy's prefix is never empty.
AllZeroCompact ==
    Encoded =>
        /\ (conf.compact /\ AllZero(src)) =>
               dst.buf = PolicyPrefix(conf) \o <<48>>
        /\ Len(dst.buf) > Len(PolicyPrefix(conf))
        /\ SubSeq(dst.buf, 1, Len(PolicyPrefix(conf))) = PolicyPrefix(conf)
        /\ ~conf.withpfx =>
               ~(Len(dst.buf) >= 2 /\ SubSeq(dst.buf, 1, 2) = <<48, 120>>)

AllZeroCompactWitness ==
    /\ Encoded
    /\ conf = CompactCapsPfx
    /\ src = <<0, 0, 0, 0, 0, 0, 0, 0>>
    /\ dst.buf = <<48, 120, 48>>

\* The length C4 states for the text of a container: 2N for a strict policy,
\* 2 * (N - z) - (1 if the first significant byte < 0x10 else 0) for a
\* compact one, z the number of leading zero bytes; 2 more with a prefix.
ClaimedLength(C, s) ==
    LET z == LeadingZeros(s)
        n == Len(s)
    IN  (IF C.compact
         THEN 2 * (n - z) - (IF z < n /\ s[z + 1] < 16 THEN 1 ELSE 0)
         ELSE 2 * n)
        + (IF C.withpfx THEN 2 ELSE 0)

\* C4 as stated (encode output length): for every policy and every container
\* the number of characters written is ClaimedLength.
EncodeLengthAsStated ==
    Encoded => Len(dst.buf) = ClaimedLength(conf, src)

\* C4 as amended: the number of characters written is ClaimedLength for every
\* container under a strict policy and for every container with a non-zero
\* byte under a compact policy; for the all-zero container a compact policy
\* writes exactly 1 character (+2 if prefixed), not 0.
EncodeLength ==
    Encoded =>
        Len(dst.buf) = IF conf.compact /\ AllZero(src)
                       THEN 1 + Len(PolicyPrefix(conf))
                       ELSE ClaimedLength(conf, src)

EncodeLengthWitness ==
    /\ Encoded
    /\ conf = CompactPfx
    /\ src = <<0, 15, 255, 17>>
    /\ Len(dst.buf) = 7

\* C5 (canonical compact minimality): under every compact policy the text
\* after the prefix is the minimal hex numeral of the container read as a
\* big-endian number, in the policy's case; its first character is '0' only
\* when it is exactly "0"; [0x00,0x0f,0xff,0x11] under compact+prefix gives
\* "0xfff11" and the 8-byte value 0xff gives "0xff".
CanonicalCompact ==
    (Encoded /\ conf.compact) =>
        /\ EncodedBody = HexNumeral(BigEndian(src), conf.withcap)
        /\ EncodedBody[1] = 48 => EncodedBody = <<48>>
        /\ (conf = CompactPfx /\ src = <<0, 15, 255, 17>>) =>
               dst.buf = <<48, 120, 102, 102, 102, 49, 49>>
        /\ (conf = CompactPfx /\ src = <<0, 0, 0, 0, 0, 0, 0, 255>>) =>
               dst.buf = <<48, 120, 102, 102>>

CanonicalCompactWitness ==
    /\ Encoded
    /\ conf = CompactPfx
    /\ src = <<0, 0, 0, 0, 0, 0, 0, 255>>
    /\ dst.buf = <<48, 120, 102, 102>>

\* The state after from_hex_raw returned.
Decoded == pc = "decoded"

\* The length of the text from_hex_raw is left with once it has dealt with
\* the prefix: a leading "0x" is taken off under a policy with withpfx.
BodyLength ==
    IF conf.withpfx /\ Len(raw) >= 2 /\ raw[1] = 48 /\ raw[2] = 120
    THEN Len(raw) - 2
    ELSE Len(raw)

\* A body length the policy accepts for a container of n bytes.
Compatible(C, n, L) ==
    IF C.compact THEN 1 <= L /\ L <= 2 * n ELSE L = 2 * n

\* C6 (BadSize classification): from_hex_raw returns BadSize(L) whenever the
\* body length L is incompatible with the policy (strict: L # 2N, compact:
\* L = 0 or L > 2N) and never returns BadSize when L is compatible; the
\* 7-character "faaffaa" against a 4-byte strict container is BadSize(7).
BadSizeClassification ==
    Decoded =>
        /\ IF Compatible(conf, len, BodyLength)
           THEN out.tag # "BadSize"
           ELSE out.tag = "BadSize" /\ out.arg = BodyLength
        /\ (~conf.compact /\ len = 4
              /\ raw = <<102, 97, 97, 102, 102, 97, 97>>) =>
               (out.tag = "BadSize" /\ out.arg = 7)

BadSizeClassificationWitness ==
    /\ Decoded
    /\ conf = Strict
    /\ len = 4
    /\ raw = <<102, 97, 97, 102, 102, 97, 97>>
    /\ out.tag = "BadSize"
    /\ out.arg = 7

\* C7 as stated (empty compact rejection): under every compact policy,
\* decoding the text "0x" fails with BadSize(0).
EmptyCompactAsStated ==
    (Decoded /\ conf.compact /\ raw = <<48, 120>>) =>
        (out.tag = "BadSize" /\ out.arg = 0)

\* C7 as amended: under the compact policies with withpfx (CompactPfx,
\* CompactCapsPfx) decoding "0x" fails with BadSize(0); under Compact and
\* CompactCaps the "0x" is not taken off and decoding it fails with
\* BadChar('x'); decoding the empty text fails with BadSize(0) under every
\* compact policy.
EmptyCompact ==
    (Decoded /\ conf.compact) =>
        /\ raw = <<48, 120>> =>
               IF conf.withpfx
               THEN out.tag = "BadSize" /\ out.arg = 0
               ELSE out.tag = "BadChar" /\ out.arg = 120
        /\ raw = <<>> => (out.tag = "BadSize" /\ out.arg = 0)

EmptyCompactWitness ==
    /\ Decoded
    /\ conf = CompactCapsPfx
    /\ len = MaxLen
    /\ raw = <<48, 120>>
    /\ out.tag = "BadSize"
    /\ out.arg = 0

\* The state after from_hex_raw decoded "0x" + s, s a text of hex digits
\* whose own decoding gave prev.
PrefixedDecoded ==
    /\ pc = "decoded"
    /\ rel = "pfx"
    /\ IsHexText(SubSeq(raw, 3, Len(raw)))

\* C8 as stated (lenient prefix on decode): under every one of the eight
\* policies, from_hex_raw("0x" + s) and from_hex_raw(s) return the same
\* result for every hex body s.
LenientPrefixAsStated ==
    PrefixedDecoded => SameResult(out, prev)

\* C8 as amended: under the four policies with withpfx, from_hex_raw("0x" + s)
\* and from_hex_raw(s) return the same result for every hex body s (the
\* prefix is taken off when present and not required).  Under the four
\* policies without withpfx the "0x" is not taken off: it counts as part of
\* the body, so from_hex_raw("0x" + s) never succeeds and returns
\* BadSize(len(s) + 2) when that length is incompatible with the policy and
\* BadChar('x') otherwise.
LenientPrefix ==
    PrefixedDecoded =>
        IF conf.withpfx
        THEN SameResult(out, prev)
        ELSE IF Compatible(conf, len, Len(raw))
             THEN out.tag = "BadChar" /\ out.arg = 120
             ELSE out.tag = "BadSize" /\ out.arg = Len(raw)

LenientPrefixWitness ==
    /\ PrefixedDecoded
    /\ conf = StrictPfx
    /\ raw = <<48, 120, 98, 69>>
    /\ IsOk(prev)
    /\ IsOk(out)
    /\ out.arg = <<190>>

\* C9 (case tolerance): under every policy, a text of hex digits and every
\* re-spelling of it in another letter case decode to the identical outcome:
\* the same bytes on success, the same error on failure; "AABBCC" and
\* "aabbcc" both decode to [0xaa, 0xbb, 0xcc].
CaseTolerance ==
    /\ (pc = "decoded" /\ rel = "case") => SameResult(out, prev)
    /\ (Decoded /\ len = 3
          /\ raw \in {<<65, 65, 66, 66, 67, 67>>, <<97, 97, 98, 98, 99, 99>>}) =>
           (IsOk(out) /\ out.arg = <<170, 187, 204>>)

CaseToleranceWitness ==
    /\ pc = "decoded"
    /\ rel = "case"
    /\ conf = Strict
    /\ raw = <<65, 97, 66, 98, 67, 99>>
    /\ IsOk(prev)
    /\ IsOk(out)

\* C10 (encode is total on byte values): under every policy and for every
\* byte value, into_hex_raw never returns BadByte (nor any error but an
\* IoError of the sink), and returns Ok when the sink never fails.
EncodeTotal ==
    pc = "encoded" =>
        /\ res.tag \in {"Ok", "IoError"}
        /\ dst.failAt = 0 => IsOk(res)

EncodeTotalWitness ==
    /\ Encoded
    /\ conf = StrictCaps
    /\ src = <<255>>
    /\ IsOk(res)
    /\ dst.buf = <<70, 70>>

---------------------------------------------------------------------------
(* Properties of the buffer codec and of error handling.                   *)

\* The value of a hex digit, read off the digit tables.
DigitValue(c) ==
    (CHOOSE i \in 1..16 : LowerDigits[i] = c \/ UpperDigits[i] = c) - 1

\* The byte pair k (0-based) of hex text s stands for.
PairValue(s, k) == DigitValue(s[2 * k + 1]) * 16 + DigitValue(s[2 * k + 2])

\* The pairs of s (0-based) that hold a non-hex character.
BadPairs(s) ==
    {k \in 0..((Len(s) \div 2) - 1) :
        ~IsHexDigit(s[2 * k + 1]) \/ ~IsHexDigit(s[2 * k + 2])}

\* The least element of a non-empty set of numbers.
Least(S) == CHOOSE k \in S : \A j \in S : k <= j

\* What a call fromhex(bytebuf, raw) does to the buffer and returns.
FromHexEffect ==
    LET n == Len(bytebuf)
    IN  /\ Len(bytebuf') = n
        /\ IF Len(raw) # 2 * n
           THEN /\ out'.tag = "BadSize" /\ out'.arg = Len(raw)
                /\ bytebuf' = bytebuf
           ELSE IF BadPairs(raw) = {}
           THEN /\ IsOk(out')
                /\ \A j \in 0..(n - 1) : bytebuf'[j + 1] = PairValue(raw, j)
           ELSE LET k == Least(BadPairs(raw))
                IN  /\ out'.tag = "BadChar"
                    /\ \A j \in 0..(k - 1) :
                           bytebuf'[j + 1] = PairValue(raw, j)
                    /\ \A j \in k..(n - 1) : bytebuf'[j + 1] = bytebuf[j + 1]

\* C11 (effect of fromhex on the destination): with len(src) # 2 * len(buf)
\* fromhex returns BadSize(len(src)) and leaves buf unchanged; with a
\* matching length it decodes the pairs left to right, and when the first
\* pair holding a non-hex character is pair k it returns BadChar, buf[0..k-1]
\* hold the values of pairs 0..k-1 and buf[k..] are unchanged.
FromHexDestination == [][FromHexBuf => FromHexEffect]_vars

FromHexDestinationWitness ==
    /\ pc = "fromhex_done"
    /\ raw = <<98, 69, 103, 48>>
    /\ bytebuf = <<190, 7>>
    /\ out.tag = "BadChar"
    /\ out.arg = 103

\* The two digits of each byte of s, high nibble first, in the given case.
RECURSIVE StrictText(_, _)
StrictText(s, caps) ==
    IF s = <<>> THEN <<>>
    ELSE LET t == IF caps THEN UpperDigits ELSE LowerDigits
         IN  <<t[(Head(s) \div 16) + 1], t[(Head(s) % 16) + 1]>>
             \o StrictText(Tail(s), caps)

\* A text cut into two-character chunks.
RECURSIVE Pairs(_)
Pairs(t) ==
    IF Len(t) < 2 THEN <<>>
    ELSE <<SubSeq(t, 1, 2)>> \o Pairs(SubSeq(t, 3, Len(t)))

\* A sequence of chunks joined into one text.
RECURSIVE Flatten(_)
Flatten(w) == IF w = <<>> THEN <<>> ELSE Head(w) \o Flatten(Tail(w))

\* The writes C12 states for into_hex_raw: the prefix, then one
\* two-character write per byte of the container.
StatedWrites(C, s) ==
    (IF C.withpfx THEN <<<<ch0, chx>>>> ELSE <<>>)
    \o Pairs(StrictText(s, C.withcap))

\* The writes into_hex_raw makes: the prefix; then under a strict policy one
\* pair per byte, under a compact policy the minimal numeral of the
\* container, its first digit alone when the number of digits is odd.
PolicyWrites(C, s) ==
    LET body == IF C.compact THEN HexNumeral(BigEndian(s), C.withcap)
                             ELSE StrictText(s, C.withcap)
    IN  (IF C.withpfx THEN <<<<ch0, chx>>>> ELSE <<>>)
        \o (IF Len(body) % 2 = 1 THEN <<<<body[1]>>>> ELSE <<>>)
        \o Pairs(SubSeq(body, (Len(body) % 2) + 1, Len(body)))

\* The state after into_hex_raw returned, whatever the sink did.
StreamEncoded == pc = "encoded" /\ api = "core"

\* The sink failed on one of the writes W of the call.
SinkFailed(W) == dst.failAt >= 1 /\ dst.failAt <= Len(W)

\* C12 as stated (sink failure during streaming encode): the writes are the
\* prefix, then one two-character write per byte; when the sink fails on a
\* write the call returns IoError, attempts no further write, and the sink
\* holds exactly the chunks of the writes before the failing one; a sink that
\* never fails holds the text intohex / intohexcaps produce.
SinkFailureAsStated ==
    StreamEncoded =>
        LET W == StatedWrites(conf, src)
        IN  IF SinkFailed(W)
            THEN /\ res.tag = "IoError"
                 /\ dst.log = SubSeq(W, 1, dst.failAt)
                 /\ dst.buf = Flatten(SubSeq(W, 1, dst.failAt - 1))
            ELSE /\ IsOk(res)
                 /\ dst.log = W
                 /\ dst.buf = Flatten(W)

\* C12 as amended: the writes are the prefix (when the policy has withpfx),
\* then under a strict policy one two-character write per byte, and under a
\* compact policy a one-character write when the minimal numeral has an odd
\* number of digits followed by one two-character write per remaining byte;
\* when the sink fails on a write the call returns IoError and attempts no
\* further write, and the sink holds the chunks of the writes before the
\* failing one followed by the part of the failing chunk the sink itself
\* took before it failed; a sink that never fails holds, under a strict
\* policy, the prefix and the text intohex / intohexcaps produce.
SinkFailure ==
    StreamEncoded =>
        LET W == PolicyWrites(conf, src)
        IN  /\ IF SinkFailed(W)
               THEN /\ res.tag = "IoError"
                    /\ dst.log = SubSeq(W, 1, dst.failAt)
                    /\ dst.buf = Flatten(SubSeq(W, 1, dst.failAt - 1))
                                 \o SubSeq(W[dst.failAt], 1,
                                      Min(dst.partial, Len(W[dst.failAt]) - 1))
               ELSE /\ IsOk(res)
                    /\ dst.log = W
                    /\ dst.buf = Flatten(W)
            /\ (dst.failAt = 0 /\ ~conf.compact) =>
                   dst.buf = PolicyPrefix(conf)
                             \o (IF conf.withcap
                                 THEN intohexcaps(zeros(2 * Len(src)), src).buf
                                 ELSE intohex(zeros(2 * Len(src)), src).buf)

SinkFailureWitness ==
    /\ StreamEncoded
    /\ conf = StrictPfx
    /\ src = <<171, 255>>
    /\ dst.failAt = 2
    /\ dst.partial = 0
    /\ res.tag = "IoError"
    /\ dst.log = <<<<48, 120>>, <<97, 98>>>>
    /\ dst.buf = <<48, 120>>

\* The text from_hex_raw is left with once it has dealt with the prefix.
DecodedBody == SubSeq(raw, Len(raw) - BodyLength + 1, Len(raw))

\* A body left-padded with '0' characters to the 2n characters of a strict
\* text.
ZeroPadded(body, n) == [i \in 1..(2 * n - Len(body)) |-> ch0] \o body

\* A compact decode of a body of hex digits of a length the container takes.
CompactDecoded ==
    /\ Decoded
    /\ conf.compact
    /\ Compatible(conf, len, BodyLength)
    /\ IsHexText(DecodedBody)

\* C13 (compact decode equals zero-padded strict decode): a compact decode of
\* a body of L hex digits, 1 <= L <= 2N, succeeds and returns the N bytes the
\* strict decode (fromhex into N zeroed bytes) of the body left-padded with
\* '0' to 2N characters returns; an odd-length body has its first character
\* in the low nibble of byte N - L/2 - 1 (counted from 0) with high nibble 0
\* and every earlier byte zero; "0x1234" into 8 bytes is the value 0x1234.
CompactPadding ==
    CompactDecoded =>
        LET L      == BodyLength
            strict == fromhex(zeros(len), ZeroPadded(DecodedBody, len))
            first  == len - (L \div 2)
        IN  /\ IsOk(out)
            /\ IsOk(strict.res)
            /\ Len(out.arg) = len
            /\ out.arg = strict.buf
            /\ (L % 2 = 1) =>
                   /\ first >= 1
                   /\ out.arg[first] = DigitValue(DecodedBody[1])
                   /\ \A i \in 1..(first - 1) : out.arg[i] = 0
            /\ (len = 8 /\ raw = <<ch0, chx, 49, 50, 51, 52>>) =>
                   BigEndian(out.arg) = 4660

CompactPaddingWitness ==
    /\ CompactDecoded
    /\ api = "core"
    /\ conf = CompactCaps
    /\ len = 2
    /\ raw = <<98, 69, 48>>
    /\ out.tag = "Ok"
    /\ out.arg = <<11, 224>>

\* A pair of lowercase hex digits.
IsLowerPair(p) ==
    /\ Len(p) = 2
    /\ \A i \in 1..2 : p[i] \in (ch0..ch9) \cup (cha..chf)

\* C14 (nibble codec round trip): for every byte b, frombyte(b) and
\* frombytecaps(b) return the digit of the high nibble followed by the digit
\* of the low nibble, and intobyte of that pair returns b; for every pair p
\* of lowercase hex digits, intobyte(p) succeeds and frombyte of its byte
\* returns p.
NibbleRoundTrip ==
    /\ (pc \in {"pair_of_byte", "byte_back"}) =>
           LET b      == src[1]
               digits == IF rel = "caps" THEN UpperDigits ELSE LowerDigits
               pair   == IF pc = "byte_back" THEN prev ELSE out
           IN  /\ IsOk(pair)
               /\ pair.arg = <<digits[(b \div 16) + 1], digits[(b % 16) + 1]>>
               /\ pc = "byte_back" => SameResult(out, Ok(b))
    /\ (pc \in {"byte_of_pair", "pair_back"} /\ IsLowerPair(raw)) =>
           /\ IsOk(out)
           /\ (pc = "pair_back" /\ rel = "lower") => out.arg = raw

NibbleRoundTripWitness ==
    /\ pc = "byte_back"
    /\ rel = "caps"
    /\ src = <<171>>
    /\ prev.tag = "Ok"
    /\ prev.arg = <<65, 66>>
    /\ out.tag = "Ok"
    /\ out.arg = 171

\* A text of lowercase hex digits.
IsLowerHexText(s) ==
    \A i \in 1..Len(s) : s[i] \in (ch0..ch9) \cup (cha..chf)

\* fromhex was handed a lowercase hex text raw of even length and a buffer
\* of Len(raw) / 2 bytes.
LowerTextDecoded ==
    /\ pc \in {"fromhex_done", "intohex_done"}
    /\ IsLowerHexText(raw)
    /\ Len(raw) = 2 * Len(bytebuf)

\* C15 (buffer codec text round trip): for every even-length text s of
\* lowercase hex digits, fromhex into a buffer of len(s) / 2 bytes succeeds,
\* and intohex of that buffer into a buffer of len(s) bytes succeeds and
\* leaves s in it.
BufferTextRoundTrip ==
    LowerTextDecoded =>
        /\ pc = "fromhex_done" => IsOk(out)
        /\ (pc = "intohex_done" /\ rel = "lower") =>
               /\ IsOk(prev)
               /\ IsOk(out)
               /\ Len(hexbuf) = Len(raw)
               /\ hexbuf = raw

BufferTextRoundTripWitness ==
    /\ LowerTextDecoded
    /\ pc = "intohex_done"
    /\ rel = "lower"
    /\ raw = <<48, 49, 50, 51, 52, 53, 54, 55, 56, 57, 97, 98, 102, 100, 101, 102>>
    /\ bytebuf = <<1, 35, 69, 103, 137, 171, 253, 239>>
    /\ hexbuf = raw
    /\ out.tag = "Ok"

\* A text without its redundant leading '0' digits: at least one digit stays.
RECURSIVE StripZeros(_)
StripZeros(s) ==
    IF Len(s) > 1 /\ Head(s) = ch0 THEN StripZeros(Tail(s)) ELSE s

\* A text with its letters in upper case (caps) or in lower case.
InCase(s, caps) ==
    [i \in 1..Len(s) |->
        IF caps /\ s[i] >= 97 /\ s[i] <= 122 THEN s[i] - 32
        ELSE IF ~caps /\ s[i] >= 65 /\ s[i] <= 90 THEN s[i] + 32
        ELSE s[i]]

\* The state after the value decoded from raw was encoded again.
Reencoded == pc = "encoded" /\ rel = "dec"

\* The state after the text of that encode call was decoded in turn.
Redecoded == RoundTripped /\ IsOk(prev)

\* C16 (compact decode is many-to-one and encode normalises it): under a
\* compact policy, for every text s that decodes successfully, the encoding
\* of the decoded value is the canonical text of the policy: the body of s
\* without its leading '0' digits (one digit at least), letters in the
\* policy's case, "0x" in front iff withpfx; and decoding that text returns
\* the value s decoded to.
EncodeNormalises ==
    /\ (Reencoded /\ conf.compact) =>
           /\ IsOk(res)
           /\ src = prev.arg
           /\ dst.buf = PolicyPrefix(conf)
                        \o InCase(StripZeros(DecodedBody), conf.withcap)
    /\ (Redecoded /\ conf.compact) => SameResult(out, prev)

EncodeNormalisesWitness ==
    /\ Reencoded
    /\ conf = CompactCapsPfx
    /\ len = 2
    /\ raw = <<48, 48, 48, 98>>
    /\ src = <<0, 11>>
    /\ res.tag = "Ok"
    /\ dst.buf = <<48, 120, 66>>

\* The positions of the non-hex characters of a text.
NonHex(s) == {i \in 1..Len(s) : ~IsHexDigit(s[i])}

\* from_hex_raw of impl_core_bytearray returned for a text whose body holds
\* a non-hex character.
BadTextDecoded ==
    /\ Decoded
    /\ api = "core"
    /\ NonHex(DecodedBody) # {}

\* C17 (decode error ordering): from_hex_raw checks the length of the body
\* before any character, so a body of incompatible length holding non-hex
\* characters gives BadSize; a body of compatible length holding a non-hex
\* character gives BadChar(c), c being the leftmost non-hex character of the
\* body (the lone leading character of an odd-length compact body before the
\* pairs, the first character of a pair before the second).
DecodeErrorOrder ==
    BadTextDecoded =>
        IF Compatible(conf, len, BodyLength)
        THEN /\ out.tag = "BadChar"
             /\ out.arg = DecodedBody[Least(NonHex(DecodedBody))]
        ELSE /\ out.tag = "BadSize"
             /\ out.arg = BodyLength

DecodeErrorOrderWitness ==
    /\ BadTextDecoded
    /\ conf = Compact
    /\ len = 2
    /\ raw = <<122, 48, 103>>
    /\ out.tag = "BadChar"
    /\ out.arg = 122

====
